---- MODULE Spec2Model ----
(***************************************************************************)
(* Model of the review ingestion / retrieval pipeline:                     *)
(*   src/data_ingestion/ingestion_pipeline.py  (DataIngestion, __main__)   *)
(*   src/retriever/retrieval.py                (Retriever, __main__)       *)
(*   src/main.py                               (invoke_chain)              *)
(* Each component is a group of variables with its own actions and its own *)
(* specification (SpecCategory, SpecRerank, SpecFilter, SpecLoad,          *)
(* SpecTransform, SpecIngest); Spec is their interleaving.                 *)
(***************************************************************************)
EXTENDS Integers, Sequences, FiniteSets, TLC

VARIABLES
    cq,             \* detect_category_from_query: [pc, query, category]
    rr,             \* Retriever.rerank_documents: [pc, docs, judgments, scored_docs, result]
    fl,             \* the two __main__ category filters: [pc, path, query, ...]
    vstore,         \* Retriever.vstore  (None or the id of a loaded store)
    retriever,      \* Retriever.retriever (None or the id of a retriever object)
    disk_loads,     \* number of FAISS.load_local calls completed so far
    th,             \* per thread: position inside load_retriever / call_retriever
    ctor,           \* DataIngestion() / Retriever(): [pc, class, inputs, events, error]
    product_data,   \* DataIngestion.product_data (rows of the combined frame)
    tf,             \* DataIngestion.transform_data: [pc, documents]
    cache_file,     \* "cached_embeddings.npy": NoFile or [exists, array]
    faiss_dir,      \* FAISS_INDEX_PATH: NoFile or [index, docstore, index_to_docstore_id]
    ing             \* the last store_in_vector_db run

vars == << cq, rr, fl, vstore, retriever, disk_loads, th, ctor,
           product_data, tf, cache_file, faiss_dir, ing >>

\* Python's None, and a path at which no file exists; the values that stand
\* in their places are records too, so they are told apart by their fields.
None == [ none |-> TRUE ]
NoFile == [ exists |-> FALSE ]

(***************************************************************************)
(* Strings are sequences of one-character strings.                          *)
(***************************************************************************)
UpperChars == << "A","B","C","D","E","F","G","H","I","J","K","L","M",
                 "N","O","P","Q","R","S","T","U","V","W","X","Y","Z" >>
LowerChars == << "a","b","c","d","e","f","g","h","i","j","k","l","m",
                 "n","o","p","q","r","s","t","u","v","w","x","y","z" >>

\* str.lower(), character by character
LowerChar(c) ==
    IF \E i \in 1..Len(UpperChars) : UpperChars[i] = c
    THEN LowerChars[CHOOSE i \in 1..Len(UpperChars) : UpperChars[i] = c]
    ELSE c

Lower(s) == [i \in 1..Len(s) |-> LowerChar(s[i])]

\* the Python test `k in s` on strings
Contains(s, k) ==
    \E i \in 1..(Len(s) - Len(k) + 1) : SubSeq(s, i, i + Len(k) - 1) = k

kw_headphone  == << "h","e","a","d","p","h","o","n","e" >>
kw_earphone   == << "e","a","r","p","h","o","n","e" >>
kw_headset    == << "h","e","a","d","s","e","t" >>
kw_mobile     == << "m","o","b","i","l","e" >>
kw_smartphone == << "s","m","a","r","t","p","h","o","n","e" >>
kw_phone      == << "p","h","o","n","e" >>
kw_watch      == << "w","a","t","c","h" >>
kw_smartwatch == << "s","m","a","r","t","w","a","t","c","h" >>
kw_tv         == << "t","v" >>
kw_television == << "t","e","l","e","v","i","s","i","o","n" >>

Categories == { "headphones", "mobiles", "smart_watches", "tv", "unknown" }

\* A detect_category_from_query that tests the phone keywords before the
\* headphone keywords (the two branches swapped).
detect_category_swapped(query) ==
    LET q == Lower(query) IN
    IF Contains(q, kw_mobile) \/ Contains(q, kw_smartphone) \/ Contains(q, kw_phone)
    THEN "mobiles"
    ELSE IF Contains(q, kw_headphone) \/ Contains(q, kw_earphone) \/ Contains(q, kw_headset)
    THEN "headphones"
    ELSE IF Contains(q, kw_watch) \/ Contains(q, kw_smartwatch)
    THEN "smart_watches"
    ELSE IF Contains(q, kw_tv) \/ Contains(q, kw_television)
    THEN "tv"
    ELSE "unknown"

\* retrieval.py detect_category_from_query
detect_category_from_query(query) ==
    LET q == Lower(query) IN
    IF Contains(q, kw_headphone) \/ Contains(q, kw_earphone) \/ Contains(q, kw_headset)
    THEN "headphones"
    ELSE IF Contains(q, kw_mobile) \/ Contains(q, kw_smartphone) \/ Contains(q, kw_phone)
    THEN "mobiles"
    ELSE IF Contains(q, kw_watch) \/ Contains(q, kw_smartwatch)
    THEN "smart_watches"
    ELSE IF Contains(q, kw_tv) \/ Contains(q, kw_television)
    THEN "tv"
    ELSE "unknown"

\* An ingestion copy that tests 'smartwatch' where the source tests 'watch'.
detect_category_smartwatch_only(query) ==
    LET q == Lower(query) IN
    IF Contains(q, kw_headphone) \/ Contains(q, kw_earphone) \/ Contains(q, kw_headset)
    THEN "headphones"
    ELSE IF Contains(q, kw_mobile) \/ Contains(q, kw_smartphone) \/ Contains(q, kw_phone)
    THEN "mobiles"
    ELSE IF Contains(q, kw_smartwatch)
    THEN "smart_watches"
    ELSE IF Contains(q, kw_tv) \/ Contains(q, kw_television)
    THEN "tv"
    ELSE "unknown"

\* ingestion_pipeline.py detect_category_from_query (no 'smartwatch' test)
detect_category_from_query_ingestion(query) ==
    LET q == Lower(query) IN
    IF Contains(q, kw_headphone) \/ Contains(q, kw_earphone) \/ Contains(q, kw_headset)
    THEN "headphones"
    ELSE IF Contains(q, kw_mobile) \/ Contains(q, kw_smartphone) \/ Contains(q, kw_phone)
    THEN "mobiles"
    ELSE IF Contains(q, kw_watch)
    THEN "smart_watches"
    ELSE IF Contains(q, kw_tv) \/ Contains(q, kw_television)
    THEN "tv"
    ELSE "unknown"

(***************************************************************************)
(* Queries: concatenations of at most MaxWords words of a vocabulary that  *)
(* holds every keyword (in mixed case), pieces of keywords that join into  *)
(* a keyword across a word boundary, and words without any keyword.        *)
(***************************************************************************)
MaxWords == 2

Vocabulary ==
    { << "H","e","a","d","p","h","o","n","e","s" >>,
      << "e","a","r","P","H","O","N","E" >>,
      << "H","E","A","D","S","E","T" >>,
      << "M","o","b","i","l","e" >>,
      << "s","m","a","r","t" >>,
      << "p","h","o","n","e" >>,
      << "h","e","a","d" >>,
      << "W","a","t" >>,
      << "c","h" >>,
      << "S","m","a","r","t","W","a","t","c","h" >>,
      << "T" >>,
      << "v" >>,
      << "T","e","l","e","v","i","s","i","o","n" >>,
      << " " >>,
      << "c","h","e","a","p" >>,
      << "p","h","o","n" >>,
      << "2","0","0","0" >> }

RECURSIVE QueriesOf(_)
QueriesOf(n) ==
    IF n = 0 THEN { << >> }
    ELSE LET shorter == QueriesOf(n - 1) IN
         shorter \cup { q \o w : q \in shorter, w \in Vocabulary }

Queries == QueriesOf(MaxWords)

DetectCategory ==
    /\ cq.pc = "idle"
    /\ \E query \in Queries :
          cq' = [ pc |-> "done", query |-> query,
                  category |-> detect_category_from_query(query),
                  category_ingestion |-> detect_category_from_query_ingestion(query) ]
    /\ UNCHANGED << ctor, rr, fl, vstore, retriever, disk_loads, th,
                    product_data, tf, cache_file, faiss_dir, ing >>

\* the caller takes the answer; the next query may come
DetectReturn ==
    /\ cq.pc = "done"
    /\ cq' = [ pc |-> "idle", query |-> << >>, category |-> "unknown",
               category_ingestion |-> "unknown" ]
    /\ UNCHANGED << ctor, rr, fl, vstore, retriever, disk_loads, th,
                    product_data, tf, cache_file, faiss_dir, ing >>

InitCategory ==
    cq = [ pc |-> "idle", query |-> << >>, category |-> "unknown",
           category_ingestion |-> "unknown" ]

NextCategory ==
    \/ DetectCategory
    \/ DetectReturn

(***************************************************************************)
(* Retriever.rerank_documents (retrieval.py 44-68)                         *)
(***************************************************************************)
MaxDocs == 3

Whitespace == { " ", "\n", "\t" }
DigitChars == << "0","1","2","3","4","5","6","7","8","9" >>

IsDigit(c) == \E i \in 1..Len(DigitChars) : DigitChars[i] = c
DigitVal(c) == (CHOOSE i \in 1..Len(DigitChars) : DigitChars[i] = c) - 1

\* str.strip()
Strip(s) ==
    IF \A i \in 1..Len(s) : s[i] \in Whitespace THEN << >>
    ELSE SubSeq(s,
            CHOOSE i \in 1..Len(s) :
                s[i] \notin Whitespace /\ \A j \in 1..(i - 1) : s[j] \in Whitespace,
            CHOOSE i \in 1..Len(s) :
                s[i] \notin Whitespace /\ \A j \in (i + 1)..Len(s) : s[j] \in Whitespace)

RECURSIVE DigitsValue(_)
DigitsValue(ds) ==
    IF ds = << >> THEN 0
    ELSE 10 * DigitsValue(SubSeq(ds, 1, Len(ds) - 1)) + DigitVal(ds[Len(ds)])

\* int(text): surrounding whitespace, an optional sign, then decimal digits;
\* anything else is a ValueError.
ParseInt(text) ==
    LET t      == Strip(text)
        signed == t # << >> /\ t[1] \in { "-", "+" }
        ds     == IF signed THEN Tail(t) ELSE t
    IN  IF ds # << >> /\ \A i \in 1..Len(ds) : IsDigit(ds[i])
        THEN [ ok |-> TRUE,
               val |-> IF signed /\ t[1] = "-" THEN 0 - DigitsValue(ds) ELSE DigitsValue(ds) ]
        ELSE [ ok |-> FALSE, val |-> 0 ]

NotADocument == [ not_a_document |-> TRUE ]
\* Document(page_content=t, metadata={"category": c, ...})
Document(t, c) == [ page_content |-> t, category |-> c ]
IsDocument(d) == d # NotADocument

\* What llm.invoke does for one prompt: it raises, or it returns a message
\* whose content is one of these texts.
Contents ==
    { << "9" >>, << "3" >>, << "1","0" >>, << "1" >>, << "1","1" >>, << "0" >>,
      << "-","3" >>, << "9","\n" >>, << " ","7" >>, << "8","/","1","0" >>, << >> }

Judgments ==
    { [ raised |-> TRUE, content |-> << >> ] }
        \cup { [ raised |-> FALSE, content |-> c ] : c \in Contents }

\* The body of the try block for one candidate (lines 51-63):
\* "skip" (continue), "scored" (append), or "error" (an exception left the body).
JudgeOne(doc, judgment) ==
    IF ~IsDocument(doc) THEN [ kind |-> "skip", score |-> 0 ]
    ELSE IF judgment.raised THEN [ kind |-> "error", score |-> 0 ]
    ELSE LET score_str == Strip(judgment.content)
             parsed    == ParseInt(score_str)
         IN  IF parsed.ok THEN [ kind |-> "scored", score |-> parsed.val ]
             ELSE [ kind |-> "error", score |-> 0 ]

\* A loop body whose exceptions are not caught: the first error ends the call.
RECURSIVE ScoreLoopUncaught(_, _, _, _)
ScoreLoopUncaught(docs, judgments, i, acc) ==
    IF i > Len(docs) \/ acc.raised THEN acc
    ELSE LET r == JudgeOne(docs[i], judgments[i]) IN
         ScoreLoopUncaught(docs, judgments, i + 1,
            IF r.kind = "scored"
            THEN [ acc EXCEPT !.scored_docs = Append(@, [ doc |-> docs[i], score |-> r.score ]) ]
            ELSE IF r.kind = "error" THEN [ acc EXCEPT !.raised = TRUE ]
            ELSE acc)

\* for i, doc in enumerate(docs): try ... except Exception (lines 49-65)
RECURSIVE ScoreLoop(_, _, _, _)
ScoreLoop(docs, judgments, i, acc) ==
    IF i > Len(docs) THEN acc
    ELSE LET r == JudgeOne(docs[i], judgments[i]) IN
         ScoreLoop(docs, judgments, i + 1,
            IF r.kind = "scored"
            THEN [ acc EXCEPT !.scored_docs = Append(@, [ doc |-> docs[i], score |-> r.score ]) ]
            ELSE acc)

\* An insertion that puts the new pair in front of the pairs of equal score.
InsertBeforeEqual(sorted, pair) ==
    LET ahead == { k \in 1..Len(sorted) : sorted[k].score > pair.score }
        n     == Cardinality(ahead)
    IN  SubSeq(sorted, 1, n) \o << pair >> \o SubSeq(sorted, n + 1, Len(sorted))

\* Where list.sort(key=score, reverse=True) leaves a pair relative to the
\* pairs that came before it in the list: after every pair of greater or
\* equal score (the sort is stable, also when reversed).
InsertDescending(sorted, pair) ==
    LET ahead == { k \in 1..Len(sorted) : sorted[k].score >= pair.score }
        n     == Cardinality(ahead)
    IN  SubSeq(sorted, 1, n) \o << pair >> \o SubSeq(sorted, n + 1, Len(sorted))

\* scored_docs.sort(key=lambda x: x[1], reverse=True) (line 67)
RECURSIVE SortDescending(_)
SortDescending(pairs) ==
    IF pairs = << >> THEN << >>
    ELSE InsertDescending(SortDescending(SubSeq(pairs, 1, Len(pairs) - 1)),
                          pairs[Len(pairs)])

rerank_documents(docs, judgments) ==
    LET acc    == ScoreLoop(docs, judgments, 1, [ scored_docs |-> << >>, raised |-> FALSE ])
        sorted == SortDescending(acc.scored_docs)
    IN  IF acc.raised
        THEN [ raised |-> TRUE, scored_docs |-> acc.scored_docs, result |-> << >> ]
        ELSE [ raised |-> FALSE, scored_docs |-> sorted,
               result |-> [ k \in 1..Len(sorted) |-> sorted[k].doc ] ]

\* Candidate lists: position i holds the fragment with text i (texts are
\* numbered here), or an object that is not a Document.
CandidateLists ==
    UNION { [ 1..n -> { "doc", "other" } ] : n \in 0..MaxDocs }

DocsOf(shape) ==
    [ i \in 1..Len(shape) |->
        IF shape[i] = "doc" THEN Document(i, "mobiles") ELSE NotADocument ]

\* the judge is asked only about Documents
JudgmentLists(shape) ==
    { js \in [ 1..Len(shape) -> Judgments ] :
        \A i \in 1..Len(shape) : shape[i] = "other" => js[i].raised }

Rerank ==
    /\ rr.pc = "idle"
    /\ \E shape \in CandidateLists : \E judgments \in JudgmentLists(shape) :
          LET docs == DocsOf(shape)
              out  == rerank_documents(docs, judgments)
          IN  rr' = [ pc |-> IF out.raised THEN "raised" ELSE "done",
                      docs |-> docs, judgments |-> judgments,
                      scored_docs |-> out.scored_docs, result |-> out.result ]
    /\ UNCHANGED << ctor, cq, fl, vstore, retriever, disk_loads, th,
                    product_data, tf, cache_file, faiss_dir, ing >>

RerankReturn ==
    /\ rr.pc # "idle"
    /\ rr' = [ pc |-> "idle", docs |-> << >>, judgments |-> << >>,
               scored_docs |-> << >>, result |-> << >> ]
    /\ UNCHANGED << ctor, cq, fl, vstore, retriever, disk_loads, th,
                    product_data, tf, cache_file, faiss_dir, ing >>

InitRerank ==
    rr = [ pc |-> "idle", docs |-> << >>, judgments |-> << >>,
           scored_docs |-> << >>, result |-> << >> ]

NextRerank ==
    \/ Rerank
    \/ RerankReturn

(***************************************************************************)
(* The category filter of the two __main__ query paths                     *)
(*   retrieval.py 91-107, ingestion_pipeline.py 207-224                    *)
(***************************************************************************)
MaxResults == 3

SampleQueries ==
    { << "p","h","o","n","e" >>,
      << "H","e","a","d","p","h","o","n","e","s" >>,
      << "W","a","t" >> \o << "c","h" >>,
      << "T" >> \o << "v" >>,
      << "c","h","e","a","p" >> }

\* What the similarity search may return: fragment i at rank i, of any category
ResultLists ==
    UNION { { [ i \in 1..n |-> Document(i, cs[i]) ] : cs \in [ 1..n -> Categories ] }
            : n \in 0..MaxResults }

\* [doc for doc in results if doc.metadata.get("category") == detected_category]
FilterByCategory(results, detected_category) ==
    LET keep == { i \in 1..Len(results) : results[i].category = detected_category }
        nth(k) == CHOOSE i \in keep : Cardinality({ j \in keep : j <= i }) = k
    IN  [ k \in 1..Cardinality(keep) |-> results[nth(k)] ]

\* The retriever's filter step without lines 103-105: an empty filtered list
\* is passed on as it is.
retriever_main_filter_no_fallback(results, detected_category) ==
    IF detected_category # "unknown"
    THEN FilterByCategory(results, detected_category)
    ELSE results

\* retrieval.py 97-105: what is printed as [Filtered Results] and passed on
retriever_main_filter(results, detected_category) ==
    LET category_filtered_results ==
            IF detected_category # "unknown"
            THEN FilterByCategory(results, detected_category)
            ELSE results
    IN  IF category_filtered_results = << >> THEN results
        ELSE category_filtered_results

\* ingestion_pipeline.py 214-224: what is printed as Result 1..n
ingestion_main_filter(results, detected_category) ==
    IF detected_category = "unknown" THEN results
    ELSE LET filtered_results == FilterByCategory(results, detected_category) IN
         IF filtered_results = << >> THEN << >>     \* only the warning is printed
         ELSE filtered_results

RetrieverMain ==
    /\ fl.pc = "idle"
    /\ \E query \in SampleQueries, results \in ResultLists :
          LET detected_category == detect_category_from_query(query) IN
          fl' = [ pc |-> "done", path |-> "retriever", query |-> query,
                  detected_category |-> detected_category, results |-> results,
                  presented |-> retriever_main_filter(results, detected_category) ]
    /\ UNCHANGED << ctor, cq, rr, vstore, retriever, disk_loads, th,
                    product_data, tf, cache_file, faiss_dir, ing >>

IngestionMain ==
    /\ fl.pc = "idle"
    /\ \E query \in SampleQueries, results \in ResultLists :
          LET detected_category == detect_category_from_query_ingestion(query) IN
          fl' = [ pc |-> "done", path |-> "ingestion", query |-> query,
                  detected_category |-> detected_category, results |-> results,
                  presented |-> ingestion_main_filter(results, detected_category) ]
    /\ UNCHANGED << ctor, cq, rr, vstore, retriever, disk_loads, th,
                    product_data, tf, cache_file, faiss_dir, ing >>

FilterReturn ==
    /\ fl.pc = "done"
    /\ fl' = [ pc |-> "idle", path |-> "none", query |-> << >>,
               detected_category |-> "unknown", results |-> << >>, presented |-> << >> ]
    /\ UNCHANGED << ctor, cq, rr, vstore, retriever, disk_loads, th,
                    product_data, tf, cache_file, faiss_dir, ing >>

InitFilter ==
    fl = [ pc |-> "idle", path |-> "none", query |-> << >>,
           detected_category |-> "unknown", results |-> << >>, presented |-> << >> ]

NextFilter ==
    \/ RetrieverMain
    \/ IngestionMain
    \/ FilterReturn

(***************************************************************************)
(* Retriever.load_retriever / call_retriever (retrieval.py 31-42, 70-72),  *)
(* called by the threads of one process on the one Retriever object        *)
(* (main.py 39, 46).  A thread's steps are the statements of               *)
(* load_retriever; nothing in it takes a lock.                             *)
(***************************************************************************)
NumThreads == 2
MaxCalls == 2

Threads == 1..NumThreads

\* call_retriever (line 71) or invoke_chain (main.py 46) enters load_retriever
CallLoadRetriever(t) ==
    /\ th[t].pc = "idle"
    /\ th[t].calls < MaxCalls
    /\ th' = [ th EXCEPT ![t].pc = "test_vstore", ![t].calls = @ + 1 ]
    /\ UNCHANGED << ctor, cq, rr, fl, vstore, retriever, disk_loads,
                    product_data, tf, cache_file, faiss_dir, ing >>

\* line 32: if not self.vstore
TestVstore(t) ==
    /\ th[t].pc = "test_vstore"
    /\ th' = [ th EXCEPT ![t].pc = IF vstore = None THEN "load_local" ELSE "test_retriever" ]
    /\ UNCHANGED << ctor, cq, rr, fl, vstore, retriever, disk_loads,
                    product_data, tf, cache_file, faiss_dir, ing >>

\* lines 33-34: self.vstore = FAISS.load_local(...), a new object read from disk
LoadLocal(t) ==
    /\ th[t].pc = "load_local"
    /\ disk_loads' = disk_loads + 1
    /\ vstore' = [ loaded_by |-> t, load |-> disk_loads + 1 ]
    /\ th' = [ th EXCEPT ![t].pc = "test_retriever" ]
    /\ UNCHANGED << ctor, cq, rr, fl, retriever,
                    product_data, tf, cache_file, faiss_dir, ing >>

\* line 37: if not self.retriever
TestRetriever(t) ==
    /\ th[t].pc = "test_retriever"
    /\ th' = [ th EXCEPT ![t].pc = IF retriever = None THEN "as_retriever" ELSE "return" ]
    /\ UNCHANGED << ctor, cq, rr, fl, vstore, retriever, disk_loads,
                    product_data, tf, cache_file, faiss_dir, ing >>

\* lines 38-39: self.retriever = self.vstore.as_retriever(...)
AsRetriever(t) ==
    /\ th[t].pc = "as_retriever"
    /\ retriever' = [ made_by |-> t, call |-> th[t].calls, over |-> vstore ]
    /\ th' = [ th EXCEPT ![t].pc = "return" ]
    /\ UNCHANGED << ctor, cq, rr, fl, vstore, disk_loads,
                    product_data, tf, cache_file, faiss_dir, ing >>

\* line 42: return self.retriever; the caller then invokes it (line 72, main.py 55)
ReturnRetriever(t) ==
    /\ th[t].pc = "return"
    /\ th' = [ th EXCEPT ![t].pc = "idle", ![t].got = Append(@, retriever) ]
    /\ UNCHANGED << ctor, cq, rr, fl, vstore, retriever, disk_loads,
                    product_data, tf, cache_file, faiss_dir, ing >>

InitLoad ==
    /\ vstore = None
    /\ retriever = None
    /\ disk_loads = 0
    /\ th = [ t \in Threads |-> [ pc |-> "idle", calls |-> 0, got |-> << >> ] ]

NextLoad ==
    \E t \in Threads :
        \/ CallLoadRetriever(t)
        \/ TestVstore(t)
        \/ LoadLocal(t)
        \/ TestRetriever(t)
        \/ AsRetriever(t)
        \/ ReturnRetriever(t)

(***************************************************************************)
(* DataIngestion.transform_data (ingestion_pipeline.py 73-108)             *)
(***************************************************************************)
MaxRows == 2

chunk_size == 512

chunk_overlap == 50

\* a missing value of the Reviews column (not a string of characters)
NaN == << "NaN" >>

\* n characters, a space at every `gap`-th place (gap = 0: no space at all)
LongText(n, gap) ==
    [ i \in 1..n |-> IF gap > 0 /\ i % gap = 0 /\ i < n THEN " " ELSE "x" ]

\* Values of the Reviews column: missing, empty, delimiters and blanks only,
\* short reviews, and reviews at and beyond the chunk size.
ReviewSamples ==
    { NaN,
      << >>,
      << " ", ";", " " >>,
      << "o","k" >>,
      << " ","o","k"," ",";",";","n","o" >>,
      LongText(chunk_size, 0),
      LongText(chunk_size + 1, 0),
      LongText(chunk_size + 88, 7),
      << "o","k",";"," " >> \o LongText(chunk_size + 1, 0) \o << " ",";","n","o" >> }

ProductDataSets ==
    UNION { [ 1..n -> [ Reviews : ReviewSamples, Category : { "mobiles" } ] ]
            : n \in 0..MaxRows }

\* A split that cuts at the first separator only, as str.split(sep, 1) does.
SplitOnce(s, sep) ==
    IF \A i \in 1..Len(s) : s[i] # sep THEN << s >>
    ELSE LET c == CHOOSE i \in 1..Len(s) :
                     s[i] = sep /\ \A j \in 1..(i - 1) : s[j] # sep
         IN  << SubSeq(s, 1, c - 1), SubSeq(s, c + 1, Len(s)) >>

\* the pieces of s[lo..hi] between the separators, in order: the range is
\* cut at the separator nearest its middle and both sides are split in turn
RECURSIVE SplitRange(_, _, _, _)
SplitRange(s, sep, lo, hi) ==
    LET seps == { i \in lo..hi : s[i] = sep } IN
    IF seps = { } THEN << SubSeq(s, lo, hi) >>
    ELSE LET mid   == (lo + hi) \div 2
             after == { i \in seps : i >= mid }
             c     == IF after # { }
                      THEN CHOOSE i \in after : \A j \in after : i <= j
                      ELSE CHOOSE i \in seps : \A j \in seps : j <= i
         IN  SplitRange(s, sep, lo, c - 1) \o SplitRange(s, sep, c + 1, hi)

\* str.split(sep) for a one-character separator
SplitOn(s, sep) == SplitRange(s, sep, 1, Len(s))

\* A splitter that cuts an over-long text off at chunk_size.
split_text_truncating(text) ==
    IF text = << >> THEN << >> ELSE << SubSeq(text, 1, chunk_size) >>

\* RecursiveCharacterTextSplitter(chunk_size=512, chunk_overlap=50,
\* separators=[";"]).split_text(text) for a text that holds no ";" (line 85
\* has split on it already): the only separator does not occur, so the text
\* is the single split; a split shorter than chunk_size goes through the
\* merge (which strips it), a longer one is emitted as it is because no
\* further separator is left to split it with.
split_text(text) ==
    LET splits == IF text = << >> THEN << >> ELSE << text >> IN
    IF splits = << >> THEN << >>
    ELSE IF Len(splits[1]) < chunk_size
         THEN (IF Strip(splits[1]) = << >> THEN << >> ELSE << Strip(splits[1]) >>)
         ELSE << splits[1] >>

\* The loop body without the strip of line 95: blank pieces are skipped, the
\* others are kept as they were written.
PieceDocumentsUnstripped(piece, category) ==
    IF Strip(piece) = << >> THEN << >>
    ELSE IF Len(piece) > 512
         THEN LET chunks == split_text(piece) IN
              [ k \in 1..Len(chunks) |-> Document(chunks[k], category) ]
         ELSE << Document(piece, category) >>

\* lines 94-104 for one piece of a row
PieceDocuments(piece, category) ==
    LET single_review == Strip(piece) IN
    IF single_review = << >> THEN << >>
    ELSE IF Len(single_review) > 512
         THEN LET chunks == split_text(single_review) IN
              [ k \in 1..Len(chunks) |-> Document(Strip(chunks[k]), category) ]
         ELSE << Document(single_review, category) >>

\* lines 94-104 for the pieces lo..hi of a row, in order
RECURSIVE PiecesDocuments(_, _, _, _)
PiecesDocuments(review_texts, lo, hi, category) ==
    IF lo > hi THEN << >>
    ELSE IF lo = hi THEN PieceDocuments(review_texts[lo], category)
    ELSE LET mid == (lo + hi) \div 2 IN
         PiecesDocuments(review_texts, lo, mid, category)
            \o PiecesDocuments(review_texts, mid + 1, hi, category)

\* line 85 and the inner loop for one row; row.get("Category", "unknown")
RowDocuments(row) ==
    LET review_texts == SplitOn(row.Reviews, ";") IN
    PiecesDocuments(review_texts, 1, Len(review_texts), row.Category)

\* lines 84-104 for the rows lo..hi, in order
RECURSIVE RowsDocuments(_, _, _)
RowsDocuments(clean_data, lo, hi) ==
    IF lo > hi THEN << >>
    ELSE IF lo = hi THEN RowDocuments(clean_data[lo])
    ELSE LET mid == (lo + hi) \div 2 IN
         RowsDocuments(clean_data, lo, mid) \o RowsDocuments(clean_data, mid + 1, hi)

\* dropna(subset=["Reviews"]), the loop, and the print of documents[0]
\* (line 107), which raises IndexError on an empty list
transform_data(data) ==
    LET clean_data == SelectSeq(data, LAMBDA row : row.Reviews # NaN)
        documents  == RowsDocuments(clean_data, 1, Len(clean_data))
    IN  IF documents = << >>
        THEN [ raised |-> TRUE, documents |-> << >> ]
        ELSE [ raised |-> FALSE, documents |-> documents ]

\* DataIngestion.__init__: self.product_data = self._load_csv()
LoadCsv ==
    /\ tf.pc = "new"
    /\ \E data \in ProductDataSets : product_data' = data
    /\ tf' = [ tf EXCEPT !.pc = "loaded" ]
    /\ UNCHANGED << ctor, cq, rr, fl, vstore, retriever, disk_loads, th,
                    cache_file, faiss_dir, ing >>

TransformData ==
    /\ tf.pc = "loaded"
    /\ LET out == transform_data(product_data) IN
       tf' = [ pc |-> IF out.raised THEN "raised" ELSE "done",
               documents |-> out.documents ]
    /\ UNCHANGED << ctor, cq, rr, fl, vstore, retriever, disk_loads, th,
                    product_data, cache_file, faiss_dir, ing >>

\* the process ends; another process may be started on another corpus
TransformExit ==
    /\ tf.pc \in { "done", "raised" }
    /\ tf' = [ pc |-> "new", documents |-> << >> ]
    /\ product_data' = << >>
    /\ UNCHANGED << ctor, cq, rr, fl, vstore, retriever, disk_loads, th,
                    cache_file, faiss_dir, ing >>

InitTransform ==
    /\ product_data = << >>
    /\ tf = [ pc |-> "new", documents |-> << >> ]

NextTransform ==
    \/ LoadCsv
    \/ TransformData
    \/ TransformExit

(***************************************************************************)
(* DataIngestion.store_in_vector_db (ingestion_pipeline.py 115-157)        *)
(***************************************************************************)
MaxShift == 1

nlist == 40         \* faiss.IndexIVFPQ(quantizer, dim, 40, 8, 8)
nbits == 8

\* centroids of each product-quantizer codebook
ksub == 2 ^ nbits

\* Fragment lists handed to store_in_vector_db: n fragments with the texts
\* s+1 .. s+n (texts are numbered here), so that two lists differ in length,
\* in content, or in both, and overlap.  A list is never empty: the __main__
\* block passes on what transform_data returned, and transform_data raises
\* on an empty list (line 107).
CorpusSizes == { 1, nlist - 1, nlist, ksub - 1, ksub, ksub + 1 }

Corpus(n, s) == [ i \in 1..n |-> Document(s + i, "mobiles") ]

Corpora == { Corpus(n, s) : n \in CorpusSizes, s \in 0..MaxShift }

\* the embedding provider's vector for one text
Embed(text) == [ embedding_of |-> text ]

\* embeddings.embed_documents(texts): same order, one vector per text
embed_documents(texts) == [ i \in 1..Len(texts) |-> Embed(texts[i]) ]

\* An index.train that accepts any number of training points.
TrainAlwaysSucceeds(vectors_np) == Len(vectors_np) >= 0

\* index.train(vectors_np): k-means for the nlist coarse centroids, then for
\* the ksub centroids of each codebook; each raises with fewer points than
\* centroids.
TrainSucceeds(vectors_np) ==
    /\ Len(vectors_np) >= nlist
    /\ Len(vectors_np) >= ksub

\* one entry of the run's log: the call, and index.is_trained when it is made
Event(op, trained) == [ op |-> op, trained |-> trained ]

\* A build that adds the vectors first and trains afterwards.
build_index_add_first(vectors_np) ==
    LET index0 == [ is_trained |-> FALSE, added |-> << >> ]
        index1 == [ index0 EXCEPT !.added = vectors_np ]
        log    == << Event("add", index0.is_trained), Event("train", index0.is_trained) >>
    IN  IF ~TrainSucceeds(vectors_np)
        THEN [ ok |-> FALSE, index |-> index1, events |-> log ]
        ELSE [ ok |-> TRUE, index |-> [ index1 EXCEPT !.is_trained = TRUE ],
               events |-> log ]

\* lines 136-143: a new IndexIVFPQ is untrained; train it, then add.  When
\* train raises, the lines after it are not reached.
build_index(vectors_np) ==
    LET index0 == [ is_trained |-> FALSE, added |-> << >> ]
        log1   == << Event("train", index0.is_trained) >>
    IN  IF ~TrainSucceeds(vectors_np)
        THEN [ ok |-> FALSE, index |-> index0, events |-> log1 ]
        ELSE LET index1 == [ index0 EXCEPT !.is_trained = TRUE ]
                 index2 == [ index1 EXCEPT !.added = vectors_np ]
             IN  [ ok |-> TRUE, index |-> index2,
                   events |-> Append(log1, Event("add", index1.is_trained)) ]

\* docstore = InMemoryDocstore({str(i): doc for i, doc in enumerate(documents)})
\* index_to_docstore_id = {i: str(i) for i in range(len(documents))}
SavedStore(index, documents) ==
    [ index                |-> index,
      docstore             |-> [ i \in 0..(Len(documents) - 1) |-> documents[i + 1] ],
      index_to_docstore_id |-> [ i \in 0..(Len(documents) - 1) |-> i ] ]

\* An embed_documents failure handled by writing what there is (nothing) to
\* the cache file before the error is passed on.
provider_failure_cache_written(cache, saved) ==
    [ status |-> "provider_error", provider_calls |-> 1, vectors_np |-> << >>,
      cache_file |-> [ exists |-> TRUE, array |-> << >> ], faiss_dir |-> saved,
      events |-> << Event("embed_documents", FALSE), Event("np.save", FALSE) >> ]

\* line 130 raises: the exception leaves store_in_vector_db, no later line
\* runs, the files are as they were
provider_failure(cache, saved) ==
    [ status |-> "provider_error", provider_calls |-> 1, vectors_np |-> << >>,
      cache_file |-> cache, faiss_dir |-> saved,
      events |-> << Event("embed_documents", FALSE) >> ]

\* One call, from the files as they are when it starts.  provider_ok: whether
\* embed_documents, if called, returns.  The result names what was written.
store_in_vector_db(documents, cache, saved, provider_ok) ==
    LET texts      == [ i \in 1..Len(documents) |-> documents[i].page_content ]
        cached     == cache.exists                         \* line 125
        vectors_np == IF cached THEN cache.array ELSE embed_documents(texts)
    IN  IF ~cached /\ ~provider_ok
        THEN provider_failure(cache, saved)
        ELSE LET cache_after == IF cached THEN cache                   \* line 132
                                    ELSE [ exists |-> TRUE, array |-> vectors_np ]
                 calls       == IF cached THEN 0 ELSE 1
                 log         == IF cached THEN << Event("np.load", FALSE) >>
                                ELSE << Event("embed_documents", FALSE),
                                        Event("np.save", FALSE) >>
                 built       == build_index(vectors_np)
             IN  IF ~built.ok                                           \* line 141
                 THEN [ status |-> "train_error", provider_calls |-> calls,
                        vectors_np |-> vectors_np, cache_file |-> cache_after,
                        faiss_dir |-> saved, events |-> log \o built.events ]
                 ELSE [ status |-> "ok", provider_calls |-> calls,
                        vectors_np |-> vectors_np, cache_file |-> cache_after,
                        faiss_dir |-> SavedStore(built.index, documents),
                        events |-> log \o built.events
                                      \o << Event("save_local", built.index.is_trained) >> ]

StoreInVectorDb ==
    /\ ing.pc = "idle"
    /\ \E documents \in Corpora, provider_ok \in BOOLEAN :
          LET out == store_in_vector_db(documents, cache_file, faiss_dir, provider_ok) IN
          /\ cache_file' = out.cache_file
          /\ faiss_dir' = out.faiss_dir
          /\ ing' = [ pc |-> IF out.status = "ok" THEN "done" ELSE "raised",
                      status |-> out.status, documents |-> documents,
                      cache_before |-> cache_file, saved_before |-> faiss_dir,
                      provider_calls |-> out.provider_calls,
                      vectors_np |-> out.vectors_np, events |-> out.events ]
    /\ UNCHANGED << ctor, cq, rr, fl, vstore, retriever, disk_loads, th, product_data, tf >>

\* the ingestion process ends; the files stay
IngestExit ==
    /\ ing.pc \in { "done", "raised" }
    /\ ing' = [ pc |-> "idle", status |-> "none", documents |-> << >>,
                cache_before |-> NoFile, saved_before |-> NoFile,
                provider_calls |-> 0, vectors_np |-> << >>, events |-> << >> ]
    /\ UNCHANGED << ctor, cq, rr, fl, vstore, retriever, disk_loads, th,
                    product_data, tf, cache_file, faiss_dir >>

InitIngest ==
    /\ cache_file = NoFile
    /\ faiss_dir = NoFile
    /\ ing = [ pc |-> "idle", status |-> "none", documents |-> << >>,
               cache_before |-> NoFile, saved_before |-> NoFile,
               provider_calls |-> 0, vectors_np |-> << >>, events |-> << >> ]

NextIngest ==
    \/ StoreInVectorDb
    \/ IngestExit

(***************************************************************************)
(* The ingestion __main__ block (ingestion_pipeline.py 198-201):           *)
(* DataIngestion(), transform_data(), store_in_vector_db(documents), on    *)
(* corpora of n reviews that are each within the chunk size.               *)
(***************************************************************************)
\* the three decimal digits of n
Digits(n) ==
    << DigitChars[((n \div 100) % 10) + 1],
       DigitChars[((n \div 10) % 10) + 1],
       DigitChars[(n % 10) + 1] >>

\* the text of the i-th review of a corpus
ReviewText(i) == << "r", "e", "v" >> \o Digits(i)

\* pieces of one width joined by the delimiter
JoinReviews(pieces) ==
    LET n == Len(pieces)
        w == Len(pieces[1])
    IN  [ p \in 1..(n * (w + 1) - 1) |->
            LET k == (p - 1) \div (w + 1)
                o == (p - 1) % (w + 1)
            IN  IF o = w THEN ";" ELSE pieces[k + 1][o + 1] ]

\* n reviews, one per row or all in the Reviews value of one row joined by
\* the delimiter, written with or without blanks around them
ReviewCorpus(n, layout, padded) ==
    LET piece(i) == IF padded THEN << " " >> \o ReviewText(i) \o << " " >>
                    ELSE ReviewText(i)
    IN  IF layout = "rows"
        THEN [ i \in 1..n |-> [ Reviews |-> piece(i), Category |-> "mobiles" ] ]
        ELSE << [ Reviews  |-> JoinReviews([ i \in 1..n |-> piece(i) ]),
                  Category |-> "mobiles" ] >>

ReviewCounts == { 1, 3, nlist, ksub }

ReviewCorpora ==
    { ReviewCorpus(n, layout, padded) :
        n \in ReviewCounts, layout \in { "rows", "joined" }, padded \in BOOLEAN }

\* line 199: ingestion = DataIngestion()
PipelineLoadCsv ==
    /\ tf.pc = "new"
    /\ ing.pc = "idle"
    /\ \E data \in ReviewCorpora : product_data' = data
    /\ tf' = [ tf EXCEPT !.pc = "loaded" ]
    /\ UNCHANGED << ctor, cq, rr, fl, vstore, retriever, disk_loads, th,
                    cache_file, faiss_dir, ing >>

\* line 201: vstore = ingestion.store_in_vector_db(documents)
PipelineStore ==
    /\ tf.pc = "done"
    /\ ing.pc = "idle"
    /\ \E provider_ok \in BOOLEAN :
          LET out == store_in_vector_db(tf.documents, cache_file, faiss_dir, provider_ok) IN
          /\ cache_file' = out.cache_file
          /\ faiss_dir' = out.faiss_dir
          /\ ing' = [ pc |-> IF out.status = "ok" THEN "done" ELSE "raised",
                      status |-> out.status, documents |-> tf.documents,
                      cache_before |-> cache_file, saved_before |-> faiss_dir,
                      provider_calls |-> out.provider_calls,
                      vectors_np |-> out.vectors_np, events |-> out.events ]
    /\ UNCHANGED << ctor, cq, rr, fl, vstore, retriever, disk_loads, th, product_data, tf >>

\* the process ends (after the run, or with the exception of one of the
\* two calls); the files stay
PipelineExit ==
    /\ tf.pc = "raised" \/ ing.pc \in { "done", "raised" }
    /\ tf' = [ pc |-> "new", documents |-> << >> ]
    /\ product_data' = << >>
    /\ ing' = [ pc |-> "idle", status |-> "none", documents |-> << >>,
                cache_before |-> NoFile, saved_before |-> NoFile,
                provider_calls |-> 0, vectors_np |-> << >>, events |-> << >> ]
    /\ UNCHANGED << ctor, cq, rr, fl, vstore, retriever, disk_loads, th,
                    cache_file, faiss_dir >>

NextPipeline ==
    \/ PipelineLoadCsv
    \/ TransformData
    \/ PipelineStore
    \/ PipelineExit

(***************************************************************************)
(* DataIngestion.__init__ (ingestion_pipeline.py 19-26) and                *)
(* Retriever.__init__ (retrieval.py 15-21) with _load_env_variables.       *)
(* The process environment gives every required variable a value, an empty *)
(* value or none; the .env file names the variables it sets.  ModelLoader  *)
(* and load_config are imported from utils and appear as events only.      *)
(***************************************************************************)
required_vars ==
    << "GOOGLE_API_KEY", "ASTRA_DB_API_ENDPOINT",
       "ASTRA_DB_APPLICATION_TOKEN", "ASTRA_DB_KEYSPACE" >>

RequiredVarSet == { required_vars[k] : k \in 1..Len(required_vars) }

\* os.environ restricted to the required variables: "unset", "empty" or "value"
Environments == [ RequiredVarSet -> { "unset", "empty", "value" } ]

\* the variables a .env file in the working directory sets
DotenvFiles == SUBSET RequiredVarSet

\* lines 43-47: the CSV files of the corpus, in the order they are checked
filenames == << "headphones_data_cleaned.csv", "mobiles_data_cleaned.csv" >>

\* each file is absent, present without the expected columns, or present
CsvDirs == [ { filenames[k] : k \in 1..Len(filenames) } -> { "absent", "bad_columns", "ok" } ]

NoError == [ type |-> "none" ]

\* load_dotenv(): sets the variables of the file that the environment does
\* not have; it does not override
load_dotenv(environ, dotenv_file) ==
    [ v \in RequiredVarSet |->
        IF environ[v] = "unset" /\ v \in dotenv_file THEN "value" ELSE environ[v] ]

\* _load_env_variables: os.getenv(var) is None for the unset variables only
load_env_variables(os_environ, dotenv_file) ==
    LET environ      == load_dotenv(os_environ, dotenv_file)
        missing_vars == SelectSeq(required_vars, LAMBDA var : environ[var] = "unset")
    IN  [ environ |-> environ,
          error   |-> IF missing_vars # << >>
                      THEN [ type |-> "EnvironmentError", missing_vars |-> missing_vars ]
                      ELSE NoError ]

\* _get_csv_paths and _load_csv: the events they add and the error they end in
load_corpus(csv_dir) ==
    LET absent == { k \in 1..Len(filenames) : csv_dir[filenames[k]] = "absent" }
        bad    == { k \in 1..Len(filenames) : csv_dir[filenames[k]] = "bad_columns" }
    IN  IF absent # { }
        THEN [ events |-> << "_get_csv_paths" >>,
               error  |-> [ type |-> "FileNotFoundError",
                            path |-> filenames[CHOOSE k \in absent : \A j \in absent : k <= j] ] ]
        ELSE IF bad # { }
        THEN LET k == CHOOSE i \in bad : \A j \in bad : i <= j IN
             [ events |-> << "_get_csv_paths" >> \o [ i \in 1..k |-> "read_csv" ],
               error  |-> [ type |-> "ValueError", path |-> filenames[k] ] ]
        ELSE [ events |-> << "_get_csv_paths" >> \o [ i \in 1..Len(filenames) |-> "read_csv" ],
               error  |-> NoError ]

\* A DataIngestion.__init__ that reads the corpus before it checks the
\* environment.
DataIngestion_init_corpus_first(os_environ, dotenv_file, csv_dir) ==
    LET corpus == load_corpus(csv_dir)
        events == << "ModelLoader" >> \o corpus.events
    IN  IF corpus.error # NoError
        THEN [ events |-> events, environ |-> os_environ, error |-> corpus.error ]
        ELSE LET env == load_env_variables(os_environ, dotenv_file) IN
             [ events  |-> events \o << "_load_env_variables" >>
                             \o (IF env.error = NoError THEN << "load_config" >> ELSE << >>),
               environ |-> env.environ,
               error   |-> env.error ]

\* DataIngestion.__init__
DataIngestion_init(os_environ, dotenv_file, csv_dir) ==
    LET env    == load_env_variables(os_environ, dotenv_file)
        events == << "ModelLoader", "_load_env_variables" >>
    IN  IF env.error # NoError
        THEN [ events |-> events, environ |-> env.environ, error |-> env.error ]
        ELSE LET corpus == load_corpus(csv_dir) IN
             [ events  |-> events \o corpus.events
                             \o (IF corpus.error = NoError THEN << "load_config" >> ELSE << >>),
               environ |-> env.environ,
               error   |-> corpus.error ]

\* Retriever.__init__
Retriever_init(os_environ, dotenv_file) ==
    LET env    == load_env_variables(os_environ, dotenv_file)
        events == << "ModelLoader", "load_config", "_load_env_variables" >>
    IN  [ events  |-> IF env.error # NoError THEN events
                      ELSE Append(events, "vstore = None"),
          environ |-> env.environ,
          error   |-> env.error ]

\* ingestion_pipeline.py 199: ingestion = DataIngestion()
ConstructDataIngestion ==
    /\ ctor.pc = "idle"
    /\ \E os_environ \in Environments, dotenv_file \in DotenvFiles, csv_dir \in CsvDirs :
          LET out == DataIngestion_init(os_environ, dotenv_file, csv_dir) IN
          ctor' = [ pc |-> IF out.error = NoError THEN "done" ELSE "raised",
                    class |-> "DataIngestion",
                    os_environ |-> os_environ, dotenv_file |-> dotenv_file,
                    environ |-> out.environ, events |-> out.events, error |-> out.error ]
    /\ UNCHANGED << cq, rr, fl, vstore, retriever, disk_loads, th,
                    product_data, tf, cache_file, faiss_dir, ing >>

\* main.py 39, retrieval.py 88: retriever_obj = Retriever()
ConstructRetriever ==
    /\ ctor.pc = "idle"
    /\ \E os_environ \in Environments, dotenv_file \in DotenvFiles :
          LET out == Retriever_init(os_environ, dotenv_file) IN
          ctor' = [ pc |-> IF out.error = NoError THEN "done" ELSE "raised",
                    class |-> "Retriever",
                    os_environ |-> os_environ, dotenv_file |-> dotenv_file,
                    environ |-> out.environ, events |-> out.events, error |-> out.error ]
    /\ UNCHANGED << cq, rr, fl, vstore, retriever, disk_loads, th,
                    product_data, tf, cache_file, faiss_dir, ing >>

\* the process ends; the next one starts with its own environment
ConstructExit ==
    /\ ctor.pc \in { "done", "raised" }
    /\ ctor' = [ pc |-> "idle", class |-> "none",
                 os_environ |-> [ v \in RequiredVarSet |-> "unset" ], dotenv_file |-> { },
                 environ |-> [ v \in RequiredVarSet |-> "unset" ],
                 events |-> << >>, error |-> NoError ]
    /\ UNCHANGED << cq, rr, fl, vstore, retriever, disk_loads, th,
                    product_data, tf, cache_file, faiss_dir, ing >>

InitConstruct ==
    ctor = [ pc |-> "idle", class |-> "none",
             os_environ |-> [ v \in RequiredVarSet |-> "unset" ], dotenv_file |-> { },
             environ |-> [ v \in RequiredVarSet |-> "unset" ],
             events |-> << >>, error |-> NoError ]

NextConstruct ==
    \/ ConstructDataIngestion
    \/ ConstructRetriever
    \/ ConstructExit

(***************************************************************************)
(* Specifications                                                          *)
(***************************************************************************)
Init ==
    /\ InitCategory
    /\ InitRerank
    /\ InitFilter
    /\ InitLoad
    /\ InitTransform
    /\ InitIngest
    /\ InitConstruct

Next ==
    \/ NextCategory
    \/ NextRerank
    \/ NextFilter
    \/ NextLoad
    \/ NextTransform
    \/ NextIngest
    \/ NextPipeline
    \/ NextConstruct

Spec          == Init /\ [][Next]_vars
SpecCategory  == Init /\ [][NextCategory]_vars
SpecRerank    == Init /\ [][NextRerank]_vars
SpecFilter    == Init /\ [][NextFilter]_vars
SpecLoad      == Init /\ [][NextLoad]_vars
SpecTransform == Init /\ [][NextTransform]_vars
SpecIngest    == Init /\ [][NextIngest]_vars
SpecPipeline  == Init /\ [][NextPipeline]_vars
SpecConstruct == Init /\ [][NextConstruct]_vars

(***************************************************************************)
(* Properties                                                              *)
(***************************************************************************)
Range(f) == { f[x] : x \in DOMAIN f }

TextsOf(documents) == [ i \in 1..Len(documents) |-> documents[i].page_content ]

\* C1: after any sequence of ingestion runs the persisted pair is aligned:
\* the index holds exactly N vectors, N the number of DocumentStore entries,
\* the positions are exactly 0..N-1, and the vector at position i is the
\* embedding of the fragment at DocumentStore position i.
C1_PersistedPairAligned ==
    faiss_dir # NoFile =>
        LET added    == faiss_dir.index.added
            docstore == faiss_dir.docstore
            N        == Cardinality(DOMAIN docstore)
        IN  /\ Len(added) = N
            /\ DOMAIN docstore = 0..(N - 1)
            /\ DOMAIN faiss_dir.index_to_docstore_id = 0..(N - 1)
            /\ \A i \in 0..(N - 1) :
                  /\ faiss_dir.index_to_docstore_id[i] = i
                  /\ added[i + 1] = Embed(docstore[i].page_content)

\* C2: every Fragment produced by transform_data has content of at most 512
\* characters, also a fragment that comes from one review piece without ';'
\* that is longer than 512 characters.
C2_FragmentsWithinChunkSize ==
    tf.pc = "done" =>
        \A k \in 1..Len(tf.documents) : Len(tf.documents[k].page_content) <= 512

\* position of a returned Document in the candidate list of the call
PosOf(doc) == CHOOSE i \in 1..Len(rr.docs) : rr.docs[i] = doc

\* the judge's score for candidate i, as an integer
JudgeScore(i) == ParseInt(rr.judgments[i].content).val

\* C3: rerank_documents returns the scored candidates in descending order of
\* judge score, candidates of equal score in their input order; candidates
\* [A,B,C] with scores [3,9,9] give [B,C,A].
C3_StableDescending ==
    rr.pc = "done" =>
        /\ \A a, b \in 1..Len(rr.result) :
              a < b =>
                 LET pa == PosOf(rr.result[a])
                     pb == PosOf(rr.result[b])
                 IN  /\ JudgeScore(pa) >= JudgeScore(pb)
                     /\ JudgeScore(pa) = JudgeScore(pb) => pa < pb
        /\ ( /\ Len(rr.docs) = 3
             /\ \A i \in 1..3 : IsDocument(rr.docs[i])
             /\ rr.judgments = << [ raised |-> FALSE, content |-> << "3" >> ],
                                  [ raised |-> FALSE, content |-> << "9" >> ],
                                  [ raised |-> FALSE, content |-> << "9" >> ] >> )
           => rr.result = << rr.docs[2], rr.docs[3], rr.docs[1] >>

C3_Witness ==
    /\ rr.pc = "done"
    /\ Len(rr.docs) = 3
    /\ \A i \in 1..3 : IsDocument(rr.docs[i])
    /\ rr.judgments = << [ raised |-> FALSE, content |-> << "3" >> ],
                         [ raised |-> FALSE, content |-> << "9" >> ],
                         [ raised |-> FALSE, content |-> << "9" >> ] >>
    /\ rr.result = << rr.docs[2], rr.docs[3], rr.docs[1] >>

\* C4: every candidate in the output of rerank_documents had a judge response
\* that parses as an integer in 1..10; a candidate whose response is not an
\* integer, or is an integer outside 1..10, is not in the output.
C4_OnlyScoresInRange ==
    rr.pc = "done" =>
        \A k \in 1..Len(rr.result) :
            LET p == PosOf(rr.result[k]) IN
            /\ ~rr.judgments[p].raised
            /\ ParseInt(rr.judgments[p].content).ok
            /\ JudgeScore(p) \in 1..10

\* whether the judgment of candidate i yields a score
Judged(i) ==
    /\ IsDocument(rr.docs[i])
    /\ ~rr.judgments[i].raised
    /\ ParseInt(rr.judgments[i].content).ok

Occurrences(seq, x) == Cardinality({ k \in 1..Len(seq) : seq[k] = x })

\* C5: a judge call that raises or answers something unparseable drops only
\* that candidate: rerank_documents never raises, every candidate whose
\* judgment succeeds is in the output exactly once, the others are not in it,
\* and the output holds nothing that was not in the input.
C5_DropsOnlyFailedCandidates ==
    /\ rr.pc # "raised"
    /\ rr.pc = "done" =>
          /\ \A i \in 1..Len(rr.docs) :
                Occurrences(rr.result, rr.docs[i]) = IF Judged(i) THEN 1 ELSE 0
          /\ \A k \in 1..Len(rr.result) : rr.result[k] \in Range(rr.docs)

C5_Witness ==
    /\ rr.pc = "done"
    /\ Len(rr.docs) = 3
    /\ \A i \in 1..3 : IsDocument(rr.docs[i])
    /\ rr.judgments[1].raised
    /\ ~rr.judgments[2].raised /\ ~ParseInt(rr.judgments[2].content).ok
    /\ Judged(3)
    /\ rr.result = << rr.docs[3] >>

\* C6: in every query path that filters by the detected category, when the
\* category is not "unknown" and no retrieved fragment carries it, what is
\* presented is the full unfiltered retrieval result (given it is non-empty).
C6_FallbackToUnfiltered ==
    ( /\ fl.pc = "done"
      /\ fl.detected_category # "unknown"
      /\ fl.results # << >>
      /\ \A i \in 1..Len(fl.results) : fl.results[i].category # fl.detected_category )
    => fl.presented = fl.results

\* The configured keyword sets, in their configured order.
KeywordTable ==
    << [ keyword |-> kw_headphone,  category |-> "headphones" ],
       [ keyword |-> kw_earphone,   category |-> "headphones" ],
       [ keyword |-> kw_headset,    category |-> "headphones" ],
       [ keyword |-> kw_mobile,     category |-> "mobiles" ],
       [ keyword |-> kw_smartphone, category |-> "mobiles" ],
       [ keyword |-> kw_phone,      category |-> "mobiles" ],
       [ keyword |-> kw_watch,      category |-> "smart_watches" ],
       [ keyword |-> kw_smartwatch, category |-> "smart_watches" ],
       [ keyword |-> kw_tv,         category |-> "tv" ],
       [ keyword |-> kw_television, category |-> "tv" ] >>

\* the keyword occurs in the query, letter case ignored
OccursIn(keyword, query) ==
    \E i \in 0..(Len(query) - Len(keyword)) :
        \A j \in 1..Len(keyword) : LowerChar(query[i + j]) = keyword[j]

MatchingKeywords(query) ==
    { k \in 1..Len(KeywordTable) : OccursIn(KeywordTable[k].keyword, query) }

\* C7: detect_category_from_query returns exactly one of the five categories:
\* the category of the first configured keyword that occurs in the query
\* (case-insensitive substring match), and "unknown" if and only if no
\* keyword occurs.
C7_FirstMatchingKeyword ==
    cq.pc = "done" =>
        LET m == MatchingKeywords(cq.query) IN
        /\ cq.category \in Categories
        /\ (cq.category = "unknown") <=> (m = {})
        /\ m # {} =>
              cq.category =
                 KeywordTable[CHOOSE k \in m : \A l \in m : k <= l].category

C7_Witness ==
    /\ cq.pc = "done"
    /\ OccursIn(kw_phone, cq.query)
    /\ OccursIn(kw_headset, cq.query)
    /\ \E i \in 1..Len(cq.query) : cq.query[i] # LowerChar(cq.query[i])
    /\ cq.category = "headphones"

\* C8: over any calls of load_retriever / call_retriever on one Retriever,
\* concurrent ones included, the persisted pair is loaded from disk exactly
\* once and every call gets the same retriever over the same vstore.
C8_LoadedOnce ==
    /\ disk_loads <= 1
    /\ \A t, u \in Threads :
          \A a \in 1..Len(th[t].got), b \in 1..Len(th[u].got) :
              th[t].got[a] = th[u].got[b]

\* whether every fragment of the run was in the cache when the run started
AllCached ==
    /\ ing.cache_before.exists
    /\ \A i \in 1..Len(ing.documents) :
          Embed(ing.documents[i].page_content) \in Range(ing.cache_before.array)

\* C9: in an ingestion run the embedding provider is not called if and only
\* if every fragment's content is already in the cache; with at least one
\* fragment missing the provider is called exactly once for the full batch
\* and the vectors used are the provider's results.
C9_ProviderCalledIffMiss ==
    ing.pc \in { "done", "raised" } =>
        /\ (ing.provider_calls = 0) <=> AllCached
        /\ ~AllCached =>
              /\ ing.provider_calls = 1
              /\ ing.status # "provider_error" =>
                    ing.vectors_np = embed_documents(TextsOf(ing.documents))

\* C10: every ingestion run that completes successfully leaves the cache
\* file holding exactly the vectors of that run's fragments, also when a
\* cache file existed before the run.
C10_CacheHoldsThisRun ==
    (ing.pc = "done" /\ ing.status = "ok") =>
        cache_file = [ exists |-> TRUE,
                       array  |-> embed_documents(TextsOf(ing.documents)) ]

HasEvent(op) == \E k \in 1..Len(ing.events) : ing.events[k].op = op

\* C11: when the embedding provider call fails during store_in_vector_db the
\* run ends with an error and the persisted state is as it was: no cache
\* file is created or modified, no index / DocumentStore artifact is written.
C11_ProviderFailurePersistsNothing ==
    ing.status = "provider_error" =>
        /\ ing.pc = "raised"
        /\ cache_file = ing.cache_before
        /\ faiss_dir = ing.saved_before
        /\ ~HasEvent("np.save")
        /\ ~HasEvent("save_local")

C11_Witness ==
    /\ ing.pc = "raised"
    /\ ing.status = "provider_error"
    /\ ing.provider_calls = 1
    /\ cache_file = NoFile
    /\ faiss_dir = NoFile

\* C12: in every ingestion run no vector is added to an untrained index: the
\* add comes only after a training that succeeded, and when training fails
\* no vector is added and no index is persisted.
C12_AddOnlyAfterTraining ==
    /\ \A k \in 1..Len(ing.events) :
          ing.events[k].op = "add" =>
             /\ ing.events[k].trained
             /\ \E j \in 1..(k - 1) : ing.events[j].op = "train"
    /\ ing.status = "train_error" =>
          /\ ~HasEvent("add")
          /\ ~HasEvent("save_local")
          /\ faiss_dir = ing.saved_before
    /\ faiss_dir # NoFile => faiss_dir.index.is_trained

C12_Witness ==
    /\ ing.pc = "done"
    /\ HasEvent("train")
    /\ HasEvent("add")
    /\ faiss_dir # NoFile
    /\ faiss_dir.index.added = ing.vectors_np

\* C13: a run that supplies fewer vectors than nlist (40) ends in an error
\* instead of an index, and no index trained on fewer than nlist vectors is
\* ever persisted.
C13_TooFewVectorsIsAnError ==
    /\ ( /\ ing.pc \in { "done", "raised" }
         /\ ing.status # "provider_error"
         /\ Len(ing.vectors_np) < nlist )
       => /\ ing.pc = "raised"
          /\ ing.status = "train_error"
          /\ faiss_dir = ing.saved_before
    /\ faiss_dir # NoFile => Len(faiss_dir.index.added) >= nlist

C13_Witness ==
    /\ ing.pc = "raised"
    /\ ing.status = "train_error"
    /\ Len(ing.vectors_np) = nlist - 1
    /\ faiss_dir = NoFile

\* the corpus in product_data is one of n reviews
IsCorpusOf(n) ==
    \E layout \in { "rows", "joined" }, padded \in BOOLEAN :
        product_data = ReviewCorpus(n, layout, padded)

\* a run of the whole pipeline on a corpus of n reviews, started without a
\* cache file, in which the embedding provider answered
FreshRunOn(n) ==
    /\ IsCorpusOf(n)
    /\ tf.pc = "done"
    /\ ing.pc \in { "done", "raised" }
    /\ ~ing.cache_before.exists
    /\ ing.status # "provider_error"

\* the n Fragments are the n review texts, in order
FragmentsAreReviews(n) ==
    /\ Len(tf.documents) = n
    /\ \A i \in 1..n : tf.documents[i].page_content = ReviewText(i)

RECURSIVE KeptPieces(_, _)
KeptPieces(data, k) ==
    IF k > Len(data) THEN << >>
    ELSE (IF data[k].Reviews = NaN THEN << >>
          ELSE SelectSeq(SplitOn(data[k].Reviews, ";"),
                         LAMBDA piece : \E i \in 1..Len(piece) : piece[i] \notin Whitespace))
         \o KeptPieces(data, k + 1)

WithinLimit(text) == Len(text) <= 512

\* C15: the Fragments of at most 512 characters are, in order, the stripped
\* non-blank pieces of at most 512 characters of the rows' Reviews texts split
\* on ';', one Fragment per piece, and no Fragment has empty content.
C15_OneFragmentPerShortPiece ==
    tf.pc = "done" =>
        LET kept     == KeptPieces(product_data, 1)
            stripped == [ k \in 1..Len(kept) |-> Strip(kept[k]) ]
        IN  /\ SelectSeq(TextsOf(tf.documents), WithinLimit)
                 = SelectSeq(stripped, WithinLimit)
            /\ \A k \in 1..Len(tf.documents) : tf.documents[k].page_content # << >>

C15_Witness ==
    /\ tf.pc = "done"
    /\ Len(product_data) = 1
    /\ product_data[1].Reviews = << " ","o","k"," ",";",";","n","o" >>
    /\ TextsOf(tf.documents) = << << "o","k" >>, << "n","o" >> >>

\* C16: transform_data never raises, whatever the corpus.
C16_TransformNeverRaises == tf.pc # "raised"

\* the longest suffix of a, of at most chunk_overlap characters, that b
\* starts with
Overlap(a, b) ==
    LET cand == { n \in 0..chunk_overlap :
                    /\ n <= Len(a)
                    /\ n <= Len(b)
                    /\ SubSeq(a, Len(a) - n + 1, Len(a)) = SubSeq(b, 1, n) }
    IN  CHOOSE n \in cand : \A m \in cand : m <= n

\* chunks k.. appended to `text`, each without its overlap with what precedes
RECURSIVE Reassemble(_, _, _)
Reassemble(text, chunks, k) ==
    IF k > Len(chunks) THEN text
    ELSE LET n == IF k = 1 THEN 0 ELSE Overlap(text, chunks[k]) IN
         Reassemble(text \o SubSeq(chunks[k], n + 1, Len(chunks[k])), chunks, k + 1)

\* the contents from j on fall into consecutive groups, one per piece from i
\* on, and each group reassembles to its stripped piece
RECURSIVE Reconstructs(_, _, _, _)
Reconstructs(pieces, i, contents, j) ==
    IF i > Len(pieces) THEN j > Len(contents)
    ELSE \E m \in 1..(Len(contents) - j + 1) :
            /\ Reassemble(<< >>, SubSeq(contents, j, j + m - 1), 1) = Strip(pieces[i])
            /\ Reconstructs(pieces, i + 1, contents, j + m)

\* C17: the sub-chunks produced for a piece, concatenated in order without
\* their overlaps, give back the stripped piece; this holds for the pieces
\* longer than 512 characters as for the others.
C17_SubChunksReconstructPiece ==
    tf.pc = "done" =>
        Reconstructs(KeptPieces(product_data, 1), 1, TextsOf(tf.documents), 1)

C17_Witness ==
    /\ tf.pc = "done"
    /\ Len(product_data) = 1
    /\ product_data[1].Reviews = LongText(chunk_size + 88, 7)
    /\ TextsOf(tf.documents) = << LongText(chunk_size + 88, 7) >>

C20_CopiesAgree ==
    cq.pc = "done" => cq.category_ingestion = cq.category

C20_Witness ==
    /\ cq.pc = "done"
    /\ Contains(Lower(cq.query), kw_smartwatch)
    /\ ~Contains(Lower(cq.query), kw_tv)
    /\ cq.category = "smart_watches"
    /\ cq.category_ingestion = "smart_watches"

\* the required variables that neither the environment nor the .env file sets
MissingValues ==
    { v \in RequiredVarSet : ctor.os_environ[v] = "unset" /\ v \notin ctor.dotenv_file }

CountEvents(name) == Cardinality({ k \in 1..Len(ctor.events) : ctor.events[k] = name })

\* C19: if a required environment value is missing, constructing
\* DataIngestion or Retriever fails with an error naming exactly the missing
\* values, after one check of the environment (no retry), and before any
\* corpus file is read, any index is loaded and any artifact is written.
C19_MissingEnvFailsFirst ==
    (ctor.pc \in { "done", "raised" } /\ MissingValues # { }) =>
        /\ ctor.pc = "raised"
        /\ ctor.error.type = "EnvironmentError"
        /\ Range(ctor.error.missing_vars) = MissingValues
        /\ CountEvents("_load_env_variables") = 1
        /\ CountEvents("_get_csv_paths") = 0
        /\ CountEvents("read_csv") = 0
        /\ ctor.events[Len(ctor.events)] = "_load_env_variables"
        /\ vstore = None
        /\ product_data = << >>
        /\ cache_file = NoFile
        /\ faiss_dir = NoFile

C19_Witness ==
    /\ ctor.pc = "raised"
    /\ ctor.class = "DataIngestion"
    /\ ctor.os_environ["GOOGLE_API_KEY"] = "value"
    /\ ctor.os_environ["ASTRA_DB_KEYSPACE"] = "empty"
    /\ "ASTRA_DB_API_ENDPOINT" \in ctor.dotenv_file
    /\ ctor.error = [ type |-> "EnvironmentError",
                      missing_vars |-> << "ASTRA_DB_APPLICATION_TOKEN" >> ]

\* the positions of the retrieved fragments that carry the detected category
MatchingPositions ==
    { i \in 1..Len(fl.results) : fl.results[i].category = fl.detected_category }

\* `list` is `results` at the positions pos[1] < pos[2] < ..., for some pos
IsSubsequenceOf(list, results) ==
    \E pos \in [ 1..Len(list) -> 1..Len(results) ] :
        /\ \A k \in 1..Len(list) : list[k] = results[pos[k]]
        /\ \A k \in 1..(Len(list) - 1) : pos[k] < pos[k + 1]

\* C21: what the retriever's category-filter step passes on is an
\* order-preserving subsequence of the retrieval result: the whole result when
\* the category is "unknown" or no fragment carries it, and otherwise exactly
\* the retrieved fragments that carry the detected category, in retrieval order.
C21_FilterKeepsRetrievalOrder ==
    (fl.pc = "done" /\ fl.path = "retriever") =>
        /\ IsSubsequenceOf(fl.presented, fl.results)
        /\ (fl.detected_category = "unknown" \/ MatchingPositions = { })
              => fl.presented = fl.results
        /\ (fl.detected_category # "unknown" /\ MatchingPositions # { })
              => /\ Len(fl.presented) = Cardinality(MatchingPositions)
                 /\ \A k \in 1..Len(fl.presented) :
                       fl.presented[k].category = fl.detected_category

C21_Witness ==
    /\ fl.pc = "done"
    /\ fl.path = "retriever"
    /\ fl.detected_category = "mobiles"
    /\ Len(fl.results) = 3
    /\ MatchingPositions = { 1, 3 }
    /\ fl.presented = << fl.results[1], fl.results[3] >>

====
